---- MODULE Spec2Model ----
(***************************************************************************)
(* Model of the signal-driven backtest engine of plugins/nautilus          *)
(* (SimpleBacktestEngine in backtest.py, driven by a SignalBasedStrategy). *)
(*                                                                         *)
(* Python floats are modelled as exact rationals <<n, d>> in lowest terms  *)
(* (d > 0), so every formula of the ledger is computed as the code writes  *)
(* it, without rounding error.  A bar's timestamp is its row index.        *)
(***************************************************************************)
EXTENDS Integers, Sequences, FiniteSets, TLC

----------------------------------------------------------------------------
(* Bounds of the model *)

\* rows of the DataFrame handed to run()
NumBars == 2

\* signals the strategy emits over one run
MaxSignals == 2

Symbols == {"BTC/USDT", "ETH/USDT"}

\* close prices of the bars
Prices == {100, 200}

\* quantity field of the emitted signals (the data model requires > 0)
Quantities == {1, 2}

----------------------------------------------------------------------------
(* Exact rational arithmetic standing for float arithmetic *)

RECURSIVE GCD(_, _)
GCD(a, b) == IF b = 0 THEN a ELSE GCD(b, a % b)

Abs(n) == IF n < 0 THEN -n ELSE n

\* n / d in lowest terms with a positive denominator (d # 0)
Rat(n, d) ==
    LET g == GCD(Abs(n), Abs(d))
        s == IF d < 0 THEN -1 ELSE 1
    IN  <<s * (n \div g), s * (d \div g)>>

RInt(n) == <<n, 1>>

RAdd(a, b) ==
    LET g == GCD(a[2], b[2])
        l == (a[2] \div g) * b[2]
    IN  Rat(a[1] * (l \div a[2]) + b[1] * (l \div b[2]), l)

RNeg(a) == <<-a[1], a[2]>>

RSub(a, b) == RAdd(a, RNeg(b))

RMul(a, b) ==
    IF a[1] = 0 \/ b[1] = 0 THEN <<0, 1>>
    ELSE LET g1 == GCD(Abs(a[1]), b[2])
             g2 == GCD(Abs(b[1]), a[2])
         IN  <<(a[1] \div g1) * (b[1] \div g2), (a[2] \div g2) * (b[2] \div g1)>>

\* a / b for b # 0
RDiv(a, b) ==
    RMul(a, IF b[1] > 0 THEN <<b[2], b[1]>> ELSE <<-b[2], -b[1]>>)

RLt(a, b) == RSub(a, b)[1] < 0

RZero == <<0, 1>>

ROne == <<1, 1>>

----------------------------------------------------------------------------
(* Engine parameters: the defaults of SimpleBacktestEngine.__init__ *)

InitialCapital == 10000

\* commission: float = 0.001
Commission == <<1, 1000>>

\* slippage: float = 0.0001
Slippage == <<1, 10000>>

----------------------------------------------------------------------------
(* Signals *)

SignalAction == {"BUY", "SELL", "CLOSE_LONG", "CLOSE_SHORT", "CLOSE_ALL"}

\* What a strategy may put in a signal; id and timestamp are set at emission.
SignalBody == [action : SignalAction, symbol : Symbols, quantity : Quantities]

TradingSignal(body, id, ts) ==
    [id |-> id, action |-> body.action, symbol |-> body.symbol,
     quantity |-> body.quantity, timestamp |-> ts]

----------------------------------------------------------------------------
(* Position and the ledger operations of _execute_signal *)

Position(symbol, side, quantity, entry_price, current_price) ==
    [symbol |-> symbol, side |-> side, quantity |-> quantity,
     entry_price |-> entry_price, current_price |-> current_price,
     unrealized_pnl |-> RZero]

\* update_price that stores the price and leaves the stored pnl as it was
update_price_Stale(pos, price) == [pos EXCEPT !.current_price = price]

\* Position.update_price
update_price(pos, price) ==
    [pos EXCEPT !.current_price = price,
                !.unrealized_pnl =
                    IF pos.side = "LONG"
                    THEN RMul(RSub(price, pos.entry_price), pos.quantity)
                    ELSE RMul(RSub(pos.entry_price, price), pos.quantity)]

\* "Apply slippage"
ExecutionPrice(signal, price) ==
    IF signal.action = "BUY"
    THEN RMul(price, RAdd(ROne, Slippage))
    ELSE RMul(price, RSub(ROne, Slippage))

\* "Calculate commission": notional of the signal's quantity
SignalNotional(signal, execution_price) ==
    RMul(RInt(signal.quantity), execution_price)

Comm(signal, execution_price) ==
    RMul(SignalNotional(signal, execution_price), Commission)

Put(positions, symbol, pos) ==
    [s \in (DOMAIN positions) \cup {symbol} |->
        IF s = symbol THEN pos ELSE positions[s]]

\* a delete that leaves the entry in the map
Del_Keep(positions, symbol) == positions

Del(positions, symbol) ==
    [s \in (DOMAIN positions) \ {symbol} |-> positions[s]]

Ledger(capital, positions, trades) ==
    [capital |-> capital, positions |-> positions, trades |-> trades]

Trade(timestamp, pos, execution_price, pnl, comm) ==
    [entry_time |-> timestamp, exit_time |-> timestamp,
     symbol |-> pos.symbol, side |-> pos.side,
     entry_price |-> pos.entry_price, exit_price |-> execution_price,
     quantity |-> pos.quantity, pnl |-> pnl,
     pnl_pct |-> RMul(RDiv(pnl, RMul(pos.entry_price, pos.quantity)), RInt(100)),
     commission |-> comm]

\* a BUY that replaces a held position instead of merging into it
ExecuteBuy_Overwrite(L, signal, x) ==
    Ledger(RSub(L.capital, RAdd(SignalNotional(signal, x), Comm(signal, x))),
           Put(L.positions, signal.symbol,
               Position(signal.symbol, "LONG", RInt(signal.quantity), x, x)),
           L.trades)

\* BUY branch
ExecuteBuy(L, signal, x) ==
    LET symbol == signal.symbol
        q == RInt(signal.quantity)
        notional == SignalNotional(signal, x)
        comm == Comm(signal, x)
        newpos ==
            IF symbol \in DOMAIN L.positions
            THEN LET pos == L.positions[symbol]
                     total_qty == RAdd(pos.quantity, q)
                     avg_price ==
                        RDiv(RAdd(RMul(pos.entry_price, pos.quantity), RMul(x, q)),
                             total_qty)
                 IN  [pos EXCEPT !.quantity = total_qty, !.entry_price = avg_price]
            ELSE Position(symbol, "LONG", q, x, x)
    IN  Ledger(RSub(L.capital, RAdd(notional, comm)),
               Put(L.positions, symbol, newpos),
               L.trades)

\* a SELL that opens a SHORT position when the symbol has none
ExecuteSell_OpensShort(L, signal, x, timestamp) ==
    LET symbol == signal.symbol
        notional == SignalNotional(signal, x)
        comm == Comm(signal, x)
    IN  IF symbol \in DOMAIN L.positions /\ L.positions[symbol].side = "LONG"
        THEN LET pos == L.positions[symbol]
                 pnl == RSub(RMul(RSub(x, pos.entry_price), pos.quantity), comm)
             IN  Ledger(RAdd(L.capital, RSub(notional, comm)),
                        Del(L.positions, symbol),
                        Append(L.trades,
                               Trade(timestamp, [pos EXCEPT !.side = "LONG"], x, pnl, comm)))
        ELSE IF symbol \notin DOMAIN L.positions
        THEN Ledger(RAdd(L.capital, RSub(notional, comm)),
                    Put(L.positions, symbol,
                        Position(symbol, "SHORT", RInt(signal.quantity), x, x)),
                    L.trades)
        ELSE L

\* a SELL that charges its commission before it looks for the position
ExecuteSell_AlwaysCharges(L, signal, x, timestamp) ==
    LET symbol == signal.symbol
        notional == SignalNotional(signal, x)
        comm == Comm(signal, x)
    IN  IF symbol \in DOMAIN L.positions /\ L.positions[symbol].side = "LONG"
        THEN LET pos == L.positions[symbol]
                 pnl == RSub(RMul(RSub(x, pos.entry_price), pos.quantity), comm)
             IN  Ledger(RAdd(L.capital, RSub(notional, comm)),
                        Del(L.positions, symbol),
                        Append(L.trades, Trade(timestamp, pos, x, pnl, comm)))
        ELSE Ledger(RSub(L.capital, comm), L.positions, L.trades)

\* SELL branch
ExecuteSell(L, signal, x, timestamp) ==
    LET symbol == signal.symbol
        notional == SignalNotional(signal, x)
        comm == Comm(signal, x)
    IN  IF symbol \in DOMAIN L.positions /\ L.positions[symbol].side = "LONG"
        THEN LET pos == L.positions[symbol]
                 pnl == RSub(RMul(RSub(x, pos.entry_price), pos.quantity), comm)
             IN  Ledger(RAdd(L.capital, RSub(notional, comm)),
                        Del(L.positions, symbol),
                        Append(L.trades,
                               Trade(timestamp, [pos EXCEPT !.side = "LONG"], x, pnl, comm)))
        ELSE L

\* CLOSE_LONG / CLOSE_ALL branch
ExecuteClose(L, signal, x, timestamp) ==
    LET symbol == signal.symbol
        comm == Comm(signal, x)
    IN  IF symbol \in DOMAIN L.positions
        THEN LET pos == L.positions[symbol]
                 notional == RMul(pos.quantity, x)
                 pnl == RSub(RMul(RSub(x, pos.entry_price), pos.quantity), comm)
             IN  Ledger(RAdd(L.capital, RSub(notional, comm)),
                        Del(L.positions, symbol),
                        Append(L.trades, Trade(timestamp, pos, x, pnl, comm)))
        ELSE L

\* an _execute_signal that also logs a Trade when a BUY opens or extends a position
ExecuteSignal_LogsOpen(L, signal, price, timestamp) ==
    LET x == ExecutionPrice(signal, price)
    IN  CASE signal.action = "BUY" ->
                LET B == ExecuteBuy(L, signal, x)
                IN  [B EXCEPT !.trades =
                        Append(L.trades,
                               Trade(timestamp, B.positions[signal.symbol], x,
                                     RZero, Comm(signal, x)))]
          [] signal.action = "SELL" -> ExecuteSell(L, signal, x, timestamp)
          [] signal.action \in {"CLOSE_LONG", "CLOSE_ALL"} ->
                ExecuteClose(L, signal, x, timestamp)
          [] OTHER -> L

\* SimpleBacktestEngine._execute_signal
ExecuteSignal(L, signal, price, timestamp) ==
    LET x == ExecutionPrice(signal, price)
    IN  CASE signal.action = "BUY" -> ExecuteBuy(L, signal, x)
          [] signal.action = "SELL" -> ExecuteSell(L, signal, x, timestamp)
          [] signal.action \in {"CLOSE_LONG", "CLOSE_ALL"} ->
                ExecuteClose(L, signal, x, timestamp)
          [] OTHER -> L

\* an _update_positions that leaves every position at its last price
UpdatePositions_Skip(positions, price) == positions

\* SimpleBacktestEngine._update_positions
UpdatePositions(positions, price) ==
    [s \in DOMAIN positions |-> update_price(positions[s], price)]

RECURSIVE SumOver(_, _)
SumOver(positions, keys) ==
    IF keys = {} THEN RZero
    ELSE LET s == CHOOSE t \in keys : TRUE
             pos == positions[s]
         IN  RAdd(RAdd(pos.unrealized_pnl, RMul(pos.entry_price, pos.quantity)),
                  SumOver(positions, keys \ {s}))

\* an equity that counts the cash and the unrealized pnl only
CalculateEquity_NoCost(capital, positions) ==
    LET RECURSIVE Pnl(_)
        Pnl(keys) ==
            IF keys = {} THEN RZero
            ELSE LET s == CHOOSE t \in keys : TRUE
                 IN  RAdd(positions[s].unrealized_pnl, Pnl(keys \ {s}))
    IN  RAdd(capital, Pnl(DOMAIN positions))

\* SimpleBacktestEngine._calculate_equity
CalculateEquity(capital, positions) ==
    RAdd(capital, SumOver(positions, DOMAIN positions))

----------------------------------------------------------------------------
(* State of one engine and its strategy *)

VARIABLES
    pc,               \* position of run(): "init", "loop", "signals", "update", "record",
                      \* "stopped", or "raised" when an exception left run()
    is_running,       \* strategy.is_running
    emitted,          \* Len(strategy._signals_emitted)
    capital,          \* engine.capital
    positions,        \* engine.positions: symbol -> Position
    trades,           \* engine.trades
    equity_curve,     \* engine.equity_curve
    pending_signals,  \* engine.pending_signals
    barIdx,           \* rows of the DataFrame iterated so far
    bar,              \* the bar dict of the current row
    k,                \* index of the for loop of _process_signals
    result,           \* the BacktestResult run() returned
    lastExec,         \* history: the last call of _execute_signal
    row,              \* the row iterrows() yielded last
    backends,         \* dispatcher._backends: backend id -> backend
    default_backend_id, \* dispatcher._default_backend_id
    dispatched        \* history: the last call of a method of the dispatcher

\* the state of the ExecutionDispatcher
dvars == <<backends, default_backend_id, dispatched>>

vars == <<pc, is_running, emitted, capital, positions, trades, equity_curve,
          pending_signals, barIdx, bar, k, result, lastExec, row, dvars>>

NoBar == [close |-> RZero, timestamp |-> 0]

NoResult == [total_trades |-> -1]

NoExec == [id |-> 0, action |-> "", symbol |-> "", bar |-> 0, price |-> RZero,
           emitted_at |-> 0]

EmptyMap == [s \in {} |-> 0]

NoRow == [index |-> 0]

\* Python's None, where a backend id is expected
NoBackendId == "<None>"

NoDispatch == [op |-> ""]

\* ExecutionDispatcher.__init__
InitDispatcher ==
    /\ backends = EmptyMap
    /\ default_backend_id = NoBackendId
    /\ dispatched = NoDispatch

\* SimpleBacktestEngine.__init__
Init ==
    /\ pc = "init"
    /\ is_running = FALSE
    /\ emitted = 0
    /\ capital = RInt(InitialCapital)
    /\ positions = EmptyMap
    /\ trades = <<>>
    /\ equity_curve = <<RInt(InitialCapital)>>
    /\ pending_signals = <<>>
    /\ barIdx = 0
    /\ bar = NoBar
    /\ k = 1
    /\ result = NoResult
    /\ lastExec = NoExec
    /\ row = NoRow
    /\ InitDispatcher

\* The signal bodies one call of on_bar may emit, given how many were emitted before
Emissions(n) == UNION {[1..m -> SignalBody] : m \in 0..(MaxSignals - n)}

\* emit_signal for each body in turn, each reaching _on_signal (append)
EmitAll(queue, bodies, n, ts) ==
    queue \o [i \in 1..Len(bodies) |-> TradingSignal(bodies[i], n + i, ts)]

\* run(), up to the bar loop: strategy.start() (the on_start hook of the base
\* class emits nothing)
RunStart ==
    /\ pc = "init"
    /\ is_running' = TRUE
    /\ pc' = "loop"
    /\ UNCHANGED <<emitted, capital, positions, trades, equity_curve,
                   pending_signals, barIdx, bar, k, result, lastExec, row, dvars>>

\* _row_to_bar: the fields of the bar the engine reads afterwards
RowToBar(close, index) == [close |-> RInt(close), timestamp |-> index]

\* One iteration of the bar loop starts: the next row becomes a bar and is fed
\* to strategy.on_bar, which emits zero or more signals.
FeedBar ==
    /\ pc = "loop"
    /\ barIdx < NumBars
    /\ \E close \in Prices, bodies \in Emissions(emitted) :
          /\ row' = [index |-> barIdx + 1, close |-> close]
          /\ bar' = RowToBar(close, barIdx + 1)
          /\ pending_signals' = EmitAll(pending_signals, bodies, emitted, barIdx + 1)
          /\ emitted' = emitted + Len(bodies)
    /\ barIdx' = barIdx + 1
    /\ k' = 1
    /\ pc' = "signals"
    /\ UNCHANGED <<is_running, capital, positions, trades, equity_curve, result,
                   lastExec, dvars>>

\* result.trades = self.trades and result.equity_curve = self.equity_curve bind
\* the engine's own lists: a BacktestResult that was returned shows every later
\* append to them
ResultAlias(r, trs, curve) ==
    IF r = NoResult THEN r ELSE [r EXCEPT !.trades = trs, !.equity_curve = curve]

\* a loop that walks the queue from its end
NextSignal_Reversed(queue, i) == queue[Len(queue) + 1 - i]

\* the signal the for loop of _process_signals takes at its i-th iteration
NextSignal(queue, i) == queue[i]

\* One iteration of the for loop of _process_signals
ExecuteNext ==
    /\ pc = "signals"
    /\ k <= Len(pending_signals)
    /\ LET signal == NextSignal(pending_signals, k)
           L == ExecuteSignal(Ledger(capital, positions, trades), signal,
                              bar.close, bar.timestamp)
       IN  /\ capital' = L.capital
           /\ positions' = L.positions
           /\ trades' = L.trades
           /\ lastExec' = [id |-> signal.id, action |-> signal.action,
                           symbol |-> signal.symbol, bar |-> barIdx,
                           price |-> bar.close, emitted_at |-> signal.timestamp]
           /\ result' = ResultAlias(result, L.trades, equity_curve)
    /\ k' = k + 1
    /\ UNCHANGED <<pc, is_running, emitted, equity_curve, pending_signals, barIdx,
                   bar, row, dvars>>

\* what pending_signals.clear() leaves
Cleared(queue) == <<>>

\* The for loop of _process_signals is over: the queue is cleared
ClearPending ==
    /\ pc = "signals"
    /\ k > Len(pending_signals)
    /\ pending_signals' = Cleared(pending_signals)
    /\ pc' = "update"
    /\ UNCHANGED <<is_running, emitted, capital, positions, trades, equity_curve,
                   barIdx, bar, k, result, lastExec, row, dvars>>

\* self._update_positions(bar['close'])
UpdateStep ==
    /\ pc = "update"
    /\ positions' = UpdatePositions(positions, bar.close)
    /\ pc' = "record"
    /\ UNCHANGED <<is_running, emitted, capital, trades, equity_curve,
                   pending_signals, barIdx, bar, k, result, lastExec, row, dvars>>

\* equity = self._calculate_equity(); self.equity_curve.append(equity)
RecordEquity ==
    /\ pc = "record"
    /\ equity_curve' = Append(equity_curve, CalculateEquity(capital, positions))
    /\ result' = ResultAlias(result, trades, equity_curve')
    /\ pc' = "loop"
    /\ UNCHANGED <<is_running, emitted, capital, positions, trades,
                   pending_signals, barIdx, bar, k, lastExec, row, dvars>>

\* wins that take in the trades of pnl zero
Wins_NonNegative(trs) == SelectSeq(trs, LAMBDA t : ~RLt(t.pnl, RZero))

\* wins = [t for t in self.trades if t.pnl > 0]
Wins(trs) == SelectSeq(trs, LAMBDA t : RLt(RZero, t.pnl))

\* losses = [t for t in self.trades if t.pnl < 0]
Losses(trs) == SelectSeq(trs, LAMBDA t : RLt(t.pnl, RZero))

\* sum(t.pnl for t in trs)
RECURSIVE SumPnl(_)
SumPnl(trs) ==
    IF trs = <<>> THEN RZero ELSE RAdd(Head(trs).pnl, SumPnl(Tail(trs)))

RAbs(a) == IF a[1] < 0 THEN RNeg(a) ELSE a

\* "Trade statistics" of _calculate_results; the fields keep the defaults of
\* BacktestResult (0) where the code leaves them alone
TradeStatistics(trs) ==
    LET wins == Wins(trs)
        losses == Losses(trs)
        total_wins == SumPnl(wins)
        total_losses == RAbs(SumPnl(losses))
    IN  [winning_trades |-> IF Len(trs) > 0 THEN Len(wins) ELSE 0,
         losing_trades |-> IF Len(trs) > 0 THEN Len(losses) ELSE 0,
         win_rate |-> IF Len(trs) > 0
                      THEN RMul(RDiv(RInt(Len(wins)), RInt(Len(trs))), RInt(100))
                      ELSE RZero,
         avg_win |-> IF Len(trs) > 0 /\ Len(wins) > 0
                     THEN RDiv(SumPnl(wins), RInt(Len(wins)))
                     ELSE RZero,
         avg_loss |-> IF Len(trs) > 0 /\ Len(losses) > 0
                      THEN RDiv(SumPnl(losses), RInt(Len(losses)))
                      ELSE RZero,
         profit_factor |-> IF Len(trs) > 0 /\ RLt(RZero, total_losses)
                           THEN RDiv(total_wins, total_losses)
                           ELSE RZero]

\* The float r * 100 of a drawdown percentage, kept as its exact factor r: the
\* product itself need not fit the integers of the model checker.
Pct(r) == [times100 |-> r]

\* a loop body that lets a later sample of equal drawdown take the maximum
DrawdownStep_LastTie(acc, equity) ==
    LET peak == IF RLt(acc.peak, equity) THEN equity ELSE acc.peak
        dd == RSub(peak, equity)
        dd_pct == IF RLt(RZero, peak) THEN Pct(RDiv(dd, peak)) ELSE Pct(RZero)
    IN  IF ~RLt(dd, acc.max_dd)
        THEN [peak |-> peak, max_dd |-> dd, max_dd_pct |-> dd_pct]
        ELSE [acc EXCEPT !.peak = peak]

\* the body of "for equity in self.equity_curve" of _calculate_results
DrawdownStep(acc, equity) ==
    LET peak == IF RLt(acc.peak, equity) THEN equity ELSE acc.peak
        dd == RSub(peak, equity)
        dd_pct == IF RLt(RZero, peak) THEN Pct(RDiv(dd, peak)) ELSE Pct(RZero)
    IN  IF RLt(acc.max_dd, dd)
        THEN [peak |-> peak, max_dd |-> dd, max_dd_pct |-> dd_pct]
        ELSE [acc EXCEPT !.peak = peak]

\* "Drawdown" of _calculate_results: the loop over the first n samples
RECURSIVE Drawdown(_, _)
Drawdown(curve, n) ==
    IF n = 0
    THEN [peak |-> curve[1], max_dd |-> RZero, max_dd_pct |-> Pct(RZero)]
    ELSE DrawdownStep(Drawdown(curve, n - 1), curve[n])

\* SimpleBacktestEngine._calculate_results, but for the Sharpe ratio
CalculateResults(cap, pos, trs, curve) ==
    LET end_capital == CalculateEquity(cap, pos)
        total_pnl == RSub(end_capital, RInt(InitialCapital))
        stats == TradeStatistics(trs)
        dd == Drawdown(curve, Len(curve))
    IN  [start_capital |-> RInt(InitialCapital),
         end_capital |-> end_capital,
         total_pnl |-> total_pnl,
         total_return_pct |-> RMul(RDiv(total_pnl, RInt(InitialCapital)), RInt(100)),
         total_trades |-> Len(trs),
         trades |-> trs,
         winning_trades |-> stats.winning_trades,
         losing_trades |-> stats.losing_trades,
         win_rate |-> stats.win_rate,
         avg_win |-> stats.avg_win,
         avg_loss |-> stats.avg_loss,
         profit_factor |-> stats.profit_factor,
         equity_curve |-> curve,
         max_drawdown |-> dd.max_dd,
         max_drawdown_pct |-> dd.max_dd_pct]

\* The rows are exhausted (a DataFrame of any length up to NumBars):
\* strategy.stop() (the on_stop hook of the base class emits nothing), then
\* the results
RunStop ==
    /\ pc = "loop"
    /\ is_running' = FALSE
    /\ result' = CalculateResults(capital, positions, trades, equity_curve)
    /\ pc' = "stopped"
    /\ UNCHANGED <<emitted, capital, positions, trades, equity_curve,
                   pending_signals, barIdx, bar, k, lastExec, row, dvars>>

Next ==
    \/ RunStart
    \/ FeedBar
    \/ ExecuteNext
    \/ ClearPending
    \/ UpdateStep
    \/ RecordEquity
    \/ RunStop

Spec == Init /\ [][Next]_vars

\* An engine whose position map (a public attribute) holds an open SHORT
\* position when run() is called: the engine's own signals never open one.
InitSeeded ==
    /\ pc = "init"
    /\ is_running = FALSE
    /\ emitted = 0
    /\ capital = RInt(InitialCapital)
    /\ \E s \in Symbols, q \in Quantities, e \in Prices :
          positions = Put(EmptyMap, s, Position(s, "SHORT", RInt(q), RInt(e), RInt(e)))
    /\ trades = <<>>
    /\ equity_curve = <<RInt(InitialCapital)>>
    /\ pending_signals = <<>>
    /\ barIdx = 0
    /\ bar = NoBar
    /\ k = 1
    /\ result = NoResult
    /\ lastExec = NoExec
    /\ row = NoRow
    /\ InitDispatcher

SpecSeeded == InitSeeded /\ [][Next]_vars

----------------------------------------------------------------------------
(* The whole life of an engine: a strategy whose hooks emit, emissions after
   the run, and run() called again on the same engine *)

\* run() up to the bar loop, with a strategy whose on_start hook emits
RunStartHook ==
    /\ pc = "init"
    /\ is_running' = TRUE
    /\ \E bodies \in Emissions(emitted) :
          /\ pending_signals' = EmitAll(pending_signals, bodies, emitted, barIdx)
          /\ emitted' = emitted + Len(bodies)
    /\ pc' = "loop"
    /\ UNCHANGED <<capital, positions, trades, equity_curve, barIdx, bar, k,
                   result, lastExec, row, dvars>>

\* The rows are exhausted: strategy.stop(), whose on_stop hook emits, then the
\* results. result is the BacktestResult of the engine's first run.
RunStopHook ==
    /\ pc = "loop"
    /\ is_running' = FALSE
    /\ \E bodies \in Emissions(emitted) :
          /\ pending_signals' = EmitAll(pending_signals, bodies, emitted, barIdx)
          /\ emitted' = emitted + Len(bodies)
    /\ result' = IF result = NoResult
                 THEN CalculateResults(capital, positions, trades, equity_curve)
                 ELSE result
    /\ pc' = "stopped"
    /\ UNCHANGED <<capital, positions, trades, equity_curve, barIdx, bar, k,
                   lastExec, row, dvars>>

\* strategy.emit_signal called after run() returned: the handler is still the
\* engine's _on_signal
EmitStopped ==
    /\ pc = "stopped"
    /\ emitted < MaxSignals
    /\ \E body \in SignalBody :
          pending_signals' = EmitAll(pending_signals, <<body>>, emitted, barIdx)
    /\ emitted' = emitted + 1
    /\ UNCHANGED <<pc, is_running, capital, positions, trades, equity_curve,
                   barIdx, bar, k, result, lastExec, row, dvars>>

\* run() called again on the same engine, with the rows that follow: nothing
\* is reset before strategy.start()
RunAgain ==
    /\ pc = "stopped"
    /\ is_running' = TRUE
    /\ \E bodies \in Emissions(emitted) :
          /\ pending_signals' = EmitAll(pending_signals, bodies, emitted, barIdx)
          /\ emitted' = emitted + Len(bodies)
    /\ pc' = "loop"
    /\ UNCHANGED <<capital, positions, trades, equity_curve, barIdx, bar, k,
                   result, lastExec, row, dvars>>

NextLifecycle ==
    \/ RunStartHook
    \/ FeedBar
    \/ ExecuteNext
    \/ ClearPending
    \/ UpdateStep
    \/ RecordEquity
    \/ RunStopHook
    \/ EmitStopped
    \/ RunAgain

SpecLifecycle == Init /\ [][NextLifecycle]_vars

----------------------------------------------------------------------------
(* Rows that may lack the close column *)

\* the rows iterrows() may yield at index i: with a close, or without one
RowsAt(i) ==
    {[index |-> i, close |-> c] : c \in Prices} \cup {[index |-> i, volume |-> 0]}

\* a lookup that falls back to zero, as row.get('close', 0) would
RowClose_Default(r) ==
    IF "close" \in DOMAIN r THEN [ok |-> TRUE, value |-> r.close]
    ELSE [ok |-> TRUE, value |-> 0]

\* float(row['close']) of _row_to_bar: a KeyError when the row has no close
RowClose(r) ==
    IF "close" \in DOMAIN r THEN [ok |-> TRUE, value |-> r.close]
    ELSE [ok |-> FALSE, value |-> 0]

\* One iteration of the bar loop starts: _row_to_bar either raises, and the
\* exception leaves run(), or returns the bar that is fed to strategy.on_bar
FeedRow ==
    /\ pc = "loop"
    /\ barIdx < NumBars
    /\ \E r \in RowsAt(barIdx + 1) :
          /\ row' = r
          /\ LET c == RowClose(r)
             IN  IF c.ok
                 THEN /\ \E bodies \in Emissions(emitted) :
                            /\ pending_signals' =
                                  EmitAll(pending_signals, bodies, emitted, r.index)
                            /\ emitted' = emitted + Len(bodies)
                      /\ bar' = RowToBar(c.value, r.index)
                      /\ k' = 1
                      /\ pc' = "signals"
                 ELSE /\ pc' = "raised"
                      /\ UNCHANGED <<bar, pending_signals, emitted, k>>
    /\ barIdx' = barIdx + 1
    /\ UNCHANGED <<is_running, capital, positions, trades, equity_curve, result,
                   lastExec, dvars>>

NextNoClose ==
    \/ RunStart
    \/ FeedRow
    \/ ExecuteNext
    \/ ClearPending
    \/ UpdateStep
    \/ RecordEquity
    \/ RunStop

SpecNoClose == Init /\ [][NextNoClose]_vars

----------------------------------------------------------------------------
(* Signals whose application fails *)

\* what a strategy may also emit: a quantity of zero, or no quantity at all
FaultyBody ==
    [action : SignalAction, symbol : Symbols, quantity : {0}]
        \cup [action : SignalAction, symbol : Symbols]

FaultyEmissions(n) ==
    UNION {[1..m -> SignalBody \cup FaultyBody] : m \in 0..(MaxSignals - n)}

\* the signal object of a body, with or without its quantity
SignalOf(body, id, ts) ==
    IF "quantity" \in DOMAIN body
    THEN TradingSignal(body, id, ts)
    ELSE [id |-> id, action |-> body.action, symbol |-> body.symbol,
          timestamp |-> ts]

\* on_bar of a strategy that emits such signals too
FeedBarFaulty ==
    /\ pc = "loop"
    /\ barIdx < NumBars
    /\ \E close \in Prices, bodies \in FaultyEmissions(emitted) :
          /\ row' = [index |-> barIdx + 1, close |-> close]
          /\ bar' = RowToBar(close, barIdx + 1)
          /\ pending_signals' =
                pending_signals \o
                    [i \in 1..Len(bodies) |->
                        SignalOf(bodies[i], emitted + i, barIdx + 1)]
          /\ emitted' = emitted + Len(bodies)
    /\ barIdx' = barIdx + 1
    /\ k' = 1
    /\ pc' = "signals"
    /\ UNCHANGED <<is_running, capital, positions, trades, equity_curve, result,
                   lastExec, dvars>>

\* _execute_signal raises on this signal: signal.quantity * execution_price
\* without a quantity (line 245), the average price of a merge whose total
\* quantity is zero (line 254), pnl_pct of a position whose entry_price *
\* quantity is zero (lines 287, 311). Each is evaluated before the ledger is
\* touched.
Raises(pos, signal) ==
    \/ "quantity" \notin DOMAIN signal
    \/ /\ signal.action = "BUY"
       /\ signal.symbol \in DOMAIN pos
       /\ RAdd(pos[signal.symbol].quantity, RInt(signal.quantity)) = RZero
    \/ /\ signal.action = "SELL"
       /\ signal.symbol \in DOMAIN pos
       /\ pos[signal.symbol].side = "LONG"
       /\ RMul(pos[signal.symbol].entry_price, pos[signal.symbol].quantity) = RZero
    \/ /\ signal.action \in {"CLOSE_LONG", "CLOSE_ALL"}
       /\ signal.symbol \in DOMAIN pos
       /\ RMul(pos[signal.symbol].entry_price, pos[signal.symbol].quantity) = RZero

\* One iteration of the for loop of _process_signals: nothing between
\* _execute_signal and the caller of run() catches an exception
ExecuteOrRaise ==
    /\ pc = "signals"
    /\ k <= Len(pending_signals)
    /\ IF Raises(positions, NextSignal(pending_signals, k))
       THEN /\ pc' = "raised"
            /\ UNCHANGED <<is_running, emitted, capital, positions, trades,
                           equity_curve, pending_signals, barIdx, bar, k, result,
                           lastExec, row, dvars>>
       ELSE ExecuteNext

NextFaulty ==
    \/ RunStart
    \/ FeedBarFaulty
    \/ ExecuteOrRaise
    \/ ClearPending
    \/ UpdateStep
    \/ RecordEquity
    \/ RunStop

SpecFaulty == Init /\ [][NextFaulty]_vars

----------------------------------------------------------------------------
(* _calculate_results on the trade logs and equity curves of other runs *)

MaxTrades == 2

MaxSamples == 3

PnlValues == {-1, 0, 1, 2}

EquityValues == {9000, 9500, 10000, 11000}

\* a Trade of the log with the given pnl
TradeOfPnl(p) ==
    Trade(1, Position("BTC/USDT", "LONG", ROne, RInt(100), RInt(100)), RInt(100),
          RInt(p), RZero)

\* run() has left the bar loop of some data: the engine is flat, and holds a
\* trade log and an equity curve
InitResults ==
    /\ pc = "loop"
    /\ is_running = TRUE
    /\ emitted = 0
    /\ capital = RInt(InitialCapital)
    /\ positions = EmptyMap
    /\ \E n \in 0..MaxTrades : \E pnls \in [1..n -> PnlValues] :
          trades = [i \in 1..n |-> TradeOfPnl(pnls[i])]
    /\ \E n \in 0..MaxSamples : \E samples \in [1..n -> EquityValues] :
          equity_curve = <<RInt(InitialCapital)>> \o [i \in 1..n |-> RInt(samples[i])]
    /\ pending_signals = <<>>
    /\ barIdx = NumBars
    /\ bar = NoBar
    /\ k = 1
    /\ result = NoResult
    /\ lastExec = NoExec
    /\ row = NoRow
    /\ InitDispatcher

NextResults == RunStop

SpecResults == InitResults /\ [][NextResults]_vars

----------------------------------------------------------------------------
(* ExecutionDispatcher and the four execution backends *)

\* the state of the backtest engine and its strategy
evars == <<pc, is_running, emitted, capital, positions, trades, equity_curve,
           pending_signals, barIdx, bar, k, result, lastExec, row>>

\* the backend classes, each named by its backend_id
BackendClasses == {"direct_order", "quant_nautilus", "prompt_strategy", "grid_strategy"}

\* QuantStrategyBackend.SUPPORTED_STRATEGIES
SUPPORTED_STRATEGIES == {"ema_cross", "rsi", "bollinger_bands", "macd", "momentum"}

DecisionActions == {"buy", "sell", "hold", "delegate", "short"}

\* decision.quantity: <<>> is None
DecisionQuantities == {<<>>, <<5>>}

\* decision.params
DecisionParams ==
    {[p \in {} |-> 0]}
        \cup {[strategy_id |-> sid] : sid \in {"bogus"}}
        \cup {[grid_size |-> g] : g \in {3}}

\* ExecutionDecision
ExecutionDecision ==
    [backend_id : BackendClasses \cup {"nonexistent"}, action : DecisionActions,
     symbol : {"BTC/USDT"}, quantity : DecisionQuantities, params : DecisionParams]

NoMetadata == [p \in {} |-> 0]

\* ExecutionResult, with the defaults of its fields
ExecutionResult(success, backend_id, trades_, message, metadata) ==
    [success |-> success, backend_id |-> backend_id, trades |-> trades_,
     message |-> message, metadata |-> metadata]

\* decision.params.get(key, default)
ParamGet(decision, key, default) ==
    IF key \in DOMAIN decision.params THEN decision.params[key] ELSE default

\* decision.quantity or 0
QuantityOr0(decision) ==
    IF decision.quantity = <<>> THEN 0 ELSE decision.quantity[1]

\* decision.action.upper(), of the actions that reach it
Upper(action) ==
    CASE action = "buy" -> "BUY"
      [] action = "sell" -> "SELL"
      [] OTHER -> "NONE"

\* a direct-order backend that books a trade for a hold
DirectOrderExecute_HoldTrades(decision) ==
    IF decision.action \notin {"buy", "sell", "hold"}
    THEN ExecutionResult(FALSE, "direct_order", <<>>,
                         <<"Unsupported action: ", decision.action>>, NoMetadata)
    ELSE ExecutionResult(TRUE, "direct_order",
                         <<[symbol |-> decision.symbol, side |-> Upper(decision.action),
                            quantity |-> QuantityOr0(decision), status |-> "SIMULATED"]>>,
                         <<"Direct ", decision.action, " order placed for ", decision.symbol>>,
                         [simulated |-> TRUE])

\* DirectOrderBackend.execute
DirectOrderExecute(decision) ==
    IF decision.action = "hold"
    THEN ExecutionResult(TRUE, "direct_order", <<>>, <<"No action taken (hold)">>,
                         [action |-> "hold"])
    ELSE IF decision.action \notin {"buy", "sell"}
    THEN ExecutionResult(FALSE, "direct_order", <<>>,
                         <<"Unsupported action: ", decision.action>>, NoMetadata)
    ELSE ExecutionResult(TRUE, "direct_order",
                         <<[symbol |-> decision.symbol, side |-> Upper(decision.action),
                            quantity |-> QuantityOr0(decision), status |-> "SIMULATED"]>>,
                         <<"Direct ", decision.action, " order placed for ", decision.symbol>>,
                         [simulated |-> TRUE])

\* QuantStrategyBackend.execute
QuantStrategyExecute(decision) ==
    LET strategy_id == ParamGet(decision, "strategy_id", "ema_cross")
    IN  IF strategy_id \notin SUPPORTED_STRATEGIES
        THEN ExecutionResult(FALSE, "quant_nautilus", <<>>,
                             <<"Unknown strategy: ", strategy_id>>, NoMetadata)
        ELSE ExecutionResult(TRUE, "quant_nautilus",
                             IF decision.action \in {"buy", "sell"}
                             THEN <<[symbol |-> decision.symbol,
                                     side |-> Upper(decision.action),
                                     quantity |-> QuantityOr0(decision),
                                     status |-> "SIMULATED",
                                     strategy_id |-> strategy_id]>>
                             ELSE <<>>,
                             <<"Executed via ", strategy_id, " strategy for ", decision.symbol>>,
                             [strategy_id |-> strategy_id, simulated |-> TRUE])

\* PromptStrategyBackend.execute
PromptStrategyExecute(decision) ==
    ExecutionResult(TRUE, "prompt_strategy",
                    IF decision.action \in {"buy", "sell"}
                    THEN <<[symbol |-> decision.symbol, side |-> Upper(decision.action),
                            quantity |-> QuantityOr0(decision), status |-> "DELEGATED",
                            backend |-> "prompt_strategy_agent"]>>
                    ELSE <<>>,
                    <<"Delegated to prompt_strategy_agent for ", decision.symbol>>,
                    [delegated |-> TRUE,
                     prompt_template_used |-> "prompt_template" \in DOMAIN decision.params])

\* a grid whose lower half takes the middle level as well
GridOrders_RoundUp(decision, grid_size) ==
    [i \in 1..grid_size |->
        [symbol |-> decision.symbol, grid_level |-> i,
         side |-> IF i - 1 < (grid_size + 1) \div 2 THEN "BUY" ELSE "SELL",
         status |-> "PENDING"]]

\* the grid_orders list GridStrategyBackend.execute builds
GridOrders(decision, grid_size) ==
    [i \in 1..grid_size |->
        [symbol |-> decision.symbol, grid_level |-> i,
         side |-> IF i - 1 < grid_size \div 2 THEN "BUY" ELSE "SELL",
         status |-> "PENDING"]]

\* GridStrategyBackend.execute
GridStrategyExecute(decision) ==
    LET grid_size == ParamGet(decision, "grid_size", 10)
    IN  IF decision.action = "hold"
        THEN ExecutionResult(TRUE, "grid_strategy", <<>>, <<"Grid strategy on hold">>,
                             [action |-> "hold"])
        ELSE ExecutionResult(TRUE, "grid_strategy", <<>>,
                             <<"Grid strategy set up for ", decision.symbol, " with ",
                               grid_size, " levels">>,
                             [grid_size |-> grid_size,
                              pending_orders |-> Len(GridOrders(decision, grid_size)),
                              simulated |-> TRUE])

\* backend.execute(decision, context): what it returns, or that it raised
Execute(backend, decision) ==
    [raised |-> FALSE,
     error |-> "",
     value |-> CASE backend = "direct_order" -> DirectOrderExecute(decision)
                 [] backend = "quant_nautilus" -> QuantStrategyExecute(decision)
                 [] backend = "prompt_strategy" -> PromptStrategyExecute(decision)
                 [] backend = "grid_strategy" -> GridStrategyExecute(decision)]

\* a backend that claims every decision
Supports_Always(backend, decision) == TRUE

\* backend.supports(decision)
Supports(backend, decision) ==
    IF backend \in {"direct_order", "quant_nautilus"}
    THEN decision.action \in {"buy", "sell", "hold"}
    ELSE decision.action \in {"buy", "sell", "hold", "delegate"}

\* a lookup that takes any registered backend when no default is set
SelectBackend_AnyRegistered(registry, default, decision) ==
    IF decision.backend_id \in DOMAIN registry THEN decision.backend_id
    ELSE IF default # NoBackendId /\ default \in DOMAIN registry THEN default
    ELSE IF DOMAIN registry # {} THEN CHOOSE id \in DOMAIN registry : TRUE
    ELSE NoBackendId

\* dispatch, lines 102-110: the id under which the backend is found, or None
SelectBackend(registry, default, decision) ==
    IF decision.backend_id \in DOMAIN registry THEN decision.backend_id
    ELSE IF default # NoBackendId /\ default \in DOMAIN registry THEN default
    ELSE NoBackendId

Call(backend, method) == [backend |-> backend, method |-> method]

\* a dispatch that reports the requested id whatever backend executed
Dispatch_RequestedId(registry, default, decision) ==
    LET selected == SelectBackend(registry, default, decision)
    IN  IF selected = NoBackendId
        THEN [result |-> ExecutionResult(FALSE, decision.backend_id, <<>>,
                                         <<"Unknown backend: ", decision.backend_id>>,
                                         NoMetadata),
              calls |-> <<>>, raised |-> FALSE]
        ELSE IF ~Supports(registry[selected], decision)
        THEN [result |-> ExecutionResult(FALSE, decision.backend_id, <<>>,
                                         <<"Backend ", decision.backend_id,
                                           " does not support this decision type">>,
                                         NoMetadata),
              calls |-> <<Call(selected, "supports")>>, raised |-> FALSE]
        ELSE LET out == Execute(registry[selected], decision)
             IN  [result |-> [out.value EXCEPT !.backend_id = decision.backend_id],
                  calls |-> <<Call(selected, "supports"), Call(selected, "execute")>>,
                  raised |-> FALSE]

\* ExecutionDispatcher.dispatch: the result it returns and the backend methods
\* it called, in order
Dispatch(registry, default, decision) ==
    LET selected == SelectBackend(registry, default, decision)
    IN  IF selected = NoBackendId
        THEN [result |-> ExecutionResult(FALSE, decision.backend_id, <<>>,
                                         <<"Unknown backend: ", decision.backend_id>>,
                                         NoMetadata),
              calls |-> <<>>, raised |-> FALSE]
        ELSE IF ~Supports(registry[selected], decision)
        THEN [result |-> ExecutionResult(FALSE, decision.backend_id, <<>>,
                                         <<"Backend ", decision.backend_id,
                                           " does not support this decision type">>,
                                         NoMetadata),
              calls |-> <<Call(selected, "supports")>>, raised |-> FALSE]
        ELSE LET out == Execute(registry[selected], decision)
             IN  [result |-> IF out.raised
                             THEN ExecutionResult(FALSE, registry[selected], <<>>,
                                                  <<"Execution failed: ", out.error>>,
                                                  [error |-> out.error])
                             ELSE out.value,
                  calls |-> <<Call(selected, "supports"), Call(selected, "execute")>>,
                  raised |-> FALSE]

\* ExecutionDispatcher.register_backend
RegisterBackend ==
    /\ \E b \in BackendClasses :
          /\ backends' = Put(backends, b, b)
          /\ dispatched' = [op |-> "register_backend", backend_id |-> b, raised |-> FALSE]
    /\ UNCHANGED <<default_backend_id, evars>>

\* ExecutionDispatcher.set_default_backend: a ValueError for an id that is not
\* registered
SetDefaultBackend ==
    /\ \E id \in BackendClasses \cup {"nonexistent"} :
          IF id \in DOMAIN backends
          THEN /\ default_backend_id' = id
               /\ dispatched' = [op |-> "set_default_backend", backend_id |-> id,
                                 raised |-> FALSE]
          ELSE /\ default_backend_id' = default_backend_id
               /\ dispatched' = [op |-> "set_default_backend", backend_id |-> id,
                                 raised |-> TRUE]
    /\ UNCHANGED <<backends, evars>>

\* One call of ExecutionDispatcher.dispatch
DispatchCall ==
    /\ \E decision \in ExecutionDecision :
          LET d == Dispatch(backends, default_backend_id, decision)
          IN  dispatched' = [op |-> "dispatch", decision |-> decision,
                             result |-> d.result, calls |-> d.calls,
                             raised |-> d.raised]
    /\ UNCHANGED <<backends, default_backend_id, evars>>

NextDispatch ==
    \/ RegisterBackend
    \/ SetDefaultBackend
    \/ DispatchCall

SpecDispatch == Init /\ [][NextDispatch]_vars

----------------------------------------------------------------------------
(* dispatch step by step, with backends that fail *)

\* subclasses of ExecutionBackend, each named by its backend_id: one whose
\* supports raises, one whose execute raises, one whose execute never completes
FailingBackends == {"supports_raises", "execute_raises", "execute_hangs"}

\* str(e) of the exception a failing backend raises
BackendError == "backend failure"

\* the decisions put to these backends
FailingDecisions ==
    [backend_id : {"direct_order"} \cup FailingBackends \cup {"nonexistent"},
     action : {"buy", "hold", "delegate"}, symbol : {"BTC/USDT"},
     quantity : {<<5>>}, params : {[p \in {} |-> 0]}]

\* backend.supports(decision): "true", "false", or "raises". The failing
\* backends but the first keep the default supports of ExecutionBackend.
SupportsOutcome(backend, decision) ==
    IF backend = "supports_raises" THEN "raises"
    ELSE IF backend \in FailingBackends THEN "true"
    ELSE IF Supports(backend, decision) THEN "true" ELSE "false"

\* await backend.execute(decision, context): "returns", "raises" or "hangs"
ExecuteOutcome(backend) ==
    CASE backend = "execute_raises" -> "raises"
      [] backend = "execute_hangs" -> "hangs"
      [] OTHER -> "returns"

\* the result execute returns when it does
ExecuteValue(backend, decision) ==
    IF backend \in BackendClasses THEN Execute(backend, decision).value
    ELSE ExecutionResult(TRUE, backend, <<>>, <<"done">>, NoMetadata)

\* a call of dispatch: where it stands, what it called, what it returned
DispatchState(phase, decision, backend, calls, result_, raised) ==
    [op |-> "dispatch", phase |-> phase, decision |-> decision, backend |-> backend,
     calls |-> calls, result |-> result_, raised |-> raised]

\* register_backend, of a failing backend or of the direct-order backend
RegisterAny ==
    /\ \E b \in {"direct_order"} \cup FailingBackends : backends' = Put(backends, b, b)
    /\ UNCHANGED <<default_backend_id, dispatched, evars>>

\* set_default_backend, of a registered id
SetDefaultAny ==
    /\ \E id \in DOMAIN backends : default_backend_id' = id
    /\ UNCHANGED <<backends, dispatched, evars>>

\* dispatch, lines 102-140: up to the await of backend.execute. An exception
\* of backend.supports (line 120, outside the try block) leaves dispatch.
DispatchBegin ==
    /\ dispatched.op = "dispatch" => dispatched.phase # "awaiting"
    /\ \E decision \in FailingDecisions :
          LET selected == SelectBackend(backends, default_backend_id, decision)
          IN  dispatched' =
                IF selected = NoBackendId
                THEN DispatchState("returned", decision, selected, <<>>,
                                   ExecutionResult(FALSE, decision.backend_id, <<>>,
                                                   <<"Unknown backend: ", decision.backend_id>>,
                                                   NoMetadata),
                                   FALSE)
                ELSE IF SupportsOutcome(backends[selected], decision) = "raises"
                THEN DispatchState("raised", decision, selected,
                                   <<Call(selected, "supports")>>, NoMetadata, TRUE)
                ELSE IF SupportsOutcome(backends[selected], decision) = "false"
                THEN DispatchState("returned", decision, selected,
                                   <<Call(selected, "supports")>>,
                                   ExecutionResult(FALSE, decision.backend_id, <<>>,
                                                   <<"Backend ", decision.backend_id,
                                                     " does not support this decision type">>,
                                                   NoMetadata),
                                   FALSE)
                ELSE DispatchState("awaiting", decision, selected,
                                   <<Call(selected, "supports"), Call(selected, "execute")>>,
                                   NoMetadata, FALSE)
    /\ UNCHANGED <<backends, default_backend_id, evars>>

\* dispatch, lines 140-160: backend.execute completed, with a result or an
\* exception; nothing bounds the wait for it
DispatchReturn ==
    /\ dispatched.op = "dispatch"
    /\ dispatched.phase = "awaiting"
    /\ ExecuteOutcome(dispatched.backend) # "hangs"
    /\ dispatched' =
          [dispatched EXCEPT
              !.phase = "returned",
              !.result =
                  IF ExecuteOutcome(dispatched.backend) = "raises"
                  THEN ExecutionResult(FALSE, dispatched.backend, <<>>,
                                       <<"Execution failed: ", BackendError>>,
                                       [error |-> BackendError])
                  ELSE ExecuteValue(dispatched.backend, dispatched.decision)]
    /\ UNCHANGED <<backends, default_backend_id, evars>>

NextBackends ==
    \/ RegisterAny
    \/ SetDefaultAny
    \/ DispatchBegin
    \/ DispatchReturn

SpecBackends == Init /\ [][NextBackends]_vars

----------------------------------------------------------------------------
(* The four backends called directly and through a dispatcher, over decisions
   with a grid_size *)

\* the largest grid_size a decision carries
MaxGrid == 4

\* decisions with and without a grid_size
GridDecisions ==
    [backend_id : BackendClasses, action : {"buy", "sell", "hold", "delegate"},
     symbol : {"BTC/USDT"}, quantity : {<<5>>},
     params : {[p \in {} |-> 0]} \cup {[grid_size |-> g] : g \in 0..MaxGrid}]

\* the grid_orders list at the end of GridStrategyBackend.execute: empty when
\* another backend executes or the decision is hold
GridOrdersOf(backend, decision) ==
    IF backend = "grid_strategy" /\ decision.action # "hold"
    THEN GridOrders(decision, ParamGet(decision, "grid_size", 10))
    ELSE <<>>

\* await backend.execute(decision, {}) on a backend object, as the tests call it
ExecuteDirect ==
    /\ \E backend \in BackendClasses, decision \in GridDecisions :
          dispatched' = [op |-> "execute", backend |-> backend, decision |-> decision,
                         result |-> Execute(backend, decision).value,
                         grid_orders |-> GridOrdersOf(backend, decision)]
    /\ UNCHANGED <<backends, default_backend_id, evars>>

\* dispatch of one of the decisions above
DispatchGrid ==
    /\ \E decision \in GridDecisions :
          LET d == Dispatch(backends, default_backend_id, decision)
          IN  dispatched' = [op |-> "dispatch", decision |-> decision,
                             result |-> d.result, calls |-> d.calls,
                             raised |-> d.raised]
    /\ UNCHANGED <<backends, default_backend_id, evars>>

\* the sets of enabled backends a configuration gives
EnabledSets == {BackendClasses, {"direct_order"}}

\* MarketAnalysisOrchestrator._register_backends on the new dispatcher: every
\* enabled backend is registered, then the default is set when it is enabled
RegisterBackends ==
    /\ backends = EmptyMap
    /\ \E enabled \in EnabledSets, default \in {"direct_order", "grid_strategy"} :
          /\ backends' = [id \in enabled |-> id]
          /\ default_backend_id' = IF default \in enabled THEN default
                                   ELSE default_backend_id
    /\ UNCHANGED <<dispatched, evars>>

NextExecute ==
    \/ RegisterBackends
    \/ ExecuteDirect
    \/ DispatchGrid

SpecExecute == Init /\ [][NextExecute]_vars

----------------------------------------------------------------------------
(* TraderAI.make_decision: the LLM call, the parsing of its response and the
   safe default *)

\* JSON values of a response: a string or null
JStr(s) == [t |-> "str", v |-> s]

JNull == [t |-> "null"]

\* the keys of a response object that vary (quantity, params and rationale are
\* left valid), and the values each takes
JsonKeys == {"action", "backend_id", "symbol"}

JsonValues(key) ==
    CASE key = "action" -> {JStr("buy"), JNull}
      [] key = "backend_id" -> {JStr("grid_strategy"), JNull}
      [] key = "symbol" -> {JStr("AAPL"), JNull}

JsonObjects ==
    UNION {{f \in [K -> {JStr("buy"), JStr("grid_strategy"), JStr("AAPL"), JNull}] :
                \A key \in K : f[key] \in JsonValues(key)} : K \in SUBSET JsonKeys}

\* what json.loads makes of a text: a JSONDecodeError, a list, or a dict
JsonDocs ==
    {[kind |-> "invalid"], [kind |-> "array"]}
        \cup {[kind |-> "object", data |-> f] : f \in JsonObjects}

\* an LLM response: a text, bare or inside a fenced block that opens with
\* three backquotes and json, with three backquotes alone, or with three
\* backquotes and js
Responses == [fence : {"none", "fence json", "fence", "fence js"}, doc : JsonDocs]

\* self.llm: None, an LLM whose call raises, or one that answers
Llms ==
    {[kind |-> "none"], [kind |-> "raises"]}
        \cup {[kind |-> "responds", response |-> r] : r \in Responses}

\* market_context or {}
MarketContexts == {[p \in {} |-> 0], [symbol |-> "MSFT"]}

\* market_context.get("symbol", "UNKNOWN")
ContextSymbol(market_context) ==
    IF "symbol" \in DOMAIN market_context THEN market_context.symbol ELSE "UNKNOWN"

\* TraderAI._call_llm: the default response when no LLM is configured
CallLlm(llm) ==
    CASE llm.kind = "none" ->
            [raised |-> FALSE,
             response |-> [fence |-> "none",
                           doc |-> [kind |-> "object",
                                    data |-> [action |-> JStr("hold"),
                                              backend_id |-> JStr("direct_order"),
                                              symbol |-> JStr("UNKNOWN")]]]]
      [] llm.kind = "raises" -> [raised |-> TRUE]
      [] llm.kind = "responds" -> [raised |-> FALSE, response |-> llm.response]

\* _parse_decision, lines 193-199: the text between the fences, parsed; a
\* block opened by another tag than json keeps the tag and does not parse
ExtractJson(response) ==
    IF response.fence = "fence js" THEN [kind |-> "invalid"] ELSE response.doc

\* data.get(key, default)
JsonGet(data, key, default) ==
    IF key \in DOMAIN data THEN data[key] ELSE default

\* ExecutionDecision(...): pydantic refuses a field that is not a string
NewDecision(backend_id, action, symbol) ==
    IF \A x \in {backend_id, action, symbol} : x.t = "str"
    THEN [raised |-> FALSE,
          decision |-> [backend_id |-> backend_id.v, action |-> action.v,
                        symbol |-> symbol.v, quantity |-> <<>>,
                        params |-> [p \in {} |-> 0]]]
    ELSE [raised |-> TRUE]

\* the hold decision both fallbacks build
SafeDefault(market_context) ==
    NewDecision(JStr("direct_order"), JStr("hold"),
                JStr(ContextSymbol(market_context)))

\* a parser that trusts a list to be a dict of defaults
ParseDecision_Trusting(response, market_context) ==
    LET doc == ExtractJson(response)
    IN  IF doc.kind = "invalid" THEN SafeDefault(market_context)
        ELSE IF doc.kind = "array"
        THEN [raised |-> FALSE,
              decision |-> [backend_id |-> "direct_order", action |-> "buy",
                            symbol |-> ContextSymbol(market_context),
                            quantity |-> <<>>, params |-> [p \in {} |-> 0]]]
        ELSE NewDecision(JsonGet(doc.data, "backend_id", JStr("direct_order")),
                         JsonGet(doc.data, "action", JStr("hold")),
                         JsonGet(doc.data, "symbol",
                                 JStr(ContextSymbol(market_context))))

\* TraderAI._parse_decision: only a JSONDecodeError is handled here; data.get
\* on a list and a refused field raise
ParseDecision(response, market_context) ==
    LET doc == ExtractJson(response)
    IN  IF doc.kind = "invalid" THEN SafeDefault(market_context)
        ELSE IF doc.kind = "array" THEN [raised |-> TRUE]
        ELSE NewDecision(JsonGet(doc.data, "backend_id", JStr("direct_order")),
                         JsonGet(doc.data, "action", JStr("hold")),
                         JsonGet(doc.data, "symbol",
                                 JStr(ContextSymbol(market_context))))

\* TraderAI.make_decision: the try around the call and the parse, and the safe
\* default of its except clause
MakeDecisionOf(llm, market_context) ==
    LET call == CallLlm(llm)
        parsed == IF call.raised THEN [raised |-> TRUE]
                  ELSE ParseDecision(call.response, market_context)
    IN  IF parsed.raised THEN SafeDefault(market_context) ELSE parsed

\* one call of make_decision
MakeDecision ==
    /\ \E llm \in Llms, market_context \in MarketContexts :
          LET made == MakeDecisionOf(llm, market_context)
          IN  dispatched' =
                  IF made.raised
                  THEN [op |-> "make_decision", llm |-> llm,
                        market_context |-> market_context, raised |-> TRUE]
                  ELSE [op |-> "make_decision", llm |-> llm,
                        market_context |-> market_context, raised |-> FALSE,
                        decision |-> made.decision]
    /\ UNCHANGED <<backends, default_backend_id, evars>>

\* MarketAnalysisOrchestrator.stream, step 5: the decision just made is
\* dispatched
DispatchDecision ==
    /\ dispatched.op = "make_decision"
    /\ ~dispatched.raised
    /\ LET d == Dispatch(backends, default_backend_id, dispatched.decision)
       IN  dispatched' = [op |-> "stream", llm |-> dispatched.llm,
                          market_context |-> dispatched.market_context,
                          decision |-> dispatched.decision,
                          result |-> d.result, calls |-> d.calls,
                          raised |-> d.raised]
    /\ UNCHANGED <<backends, default_backend_id, evars>>

NextTrader ==
    \/ RegisterBackends
    \/ MakeDecision
    \/ DispatchDecision

SpecTrader == Init /\ [][NextTrader]_vars

----------------------------------------------------------------------------
(* A run over a DataFrame whose rows carry a symbol column *)

\* _row_to_bar, with the symbol of the row
RowToSymbolBar(close, index, symbol) ==
    [close |-> RInt(close), timestamp |-> index, symbol |-> symbol]

\* One iteration of the bar loop starts on a row of either symbol
FeedSymbolBar ==
    /\ pc = "loop"
    /\ barIdx < NumBars
    /\ \E close \in Prices, symbol \in Symbols, bodies \in Emissions(emitted) :
          /\ row' = [index |-> barIdx + 1, close |-> close, symbol |-> symbol]
          /\ bar' = RowToSymbolBar(close, barIdx + 1, symbol)
          /\ pending_signals' = EmitAll(pending_signals, bodies, emitted, barIdx + 1)
          /\ emitted' = emitted + Len(bodies)
    /\ barIdx' = barIdx + 1
    /\ k' = 1
    /\ pc' = "signals"
    /\ UNCHANGED <<is_running, capital, positions, trades, equity_curve, result,
                   lastExec, dvars>>

NextSymbols ==
    \/ RunStart
    \/ FeedSymbolBar
    \/ ExecuteNext
    \/ ClearPending
    \/ UpdateStep
    \/ RecordEquity
    \/ RunStop

SpecSymbols == Init /\ [][NextSymbols]_vars

----------------------------------------------------------------------------
(* Properties *)

CloseActions == {"SELL", "CLOSE_LONG", "CLOSE_ALL"}

\* this step is one call of _execute_signal, on pending_signals[k]
ExecStep == pc = "signals" /\ k <= Len(pending_signals) /\ k' = k + 1

\* the execution prices as section 4.1 states them
BuyPrice == RMul(bar.close, RAdd(ROne, Slippage))

ClosePrice == RMul(bar.close, RSub(ROne, Slippage))

Last(seq) == seq[Len(seq)]

\* C1: a BUY of quantity q at market price p executes at x = p * (1 + slippage);
\* cash decreases by exactly q*x + q*x*commission; with no position for the
\* symbol the map then holds a LONG position (q, x); with a LONG position
\* (e0, q0) it then holds quantity q0 + q and entry * (q0 + q) = e0*q0 + x*q.
C1_BuyEffect ==
    [][(ExecStep /\ pending_signals[k].action = "BUY") =>
        LET sig == pending_signals[k]
            s == sig.symbol
            q == RInt(sig.quantity)
            x == BuyPrice
        IN  /\ capital' = RSub(capital, RAdd(RMul(q, x), RMul(RMul(q, x), Commission)))
            /\ s \in DOMAIN positions'
            /\ positions'[s].side = "LONG"
            /\ s \notin DOMAIN positions =>
                  /\ positions'[s].quantity = q
                  /\ positions'[s].entry_price = x
            /\ s \in DOMAIN positions =>
                  /\ positions'[s].quantity = RAdd(positions[s].quantity, q)
                  /\ RMul(positions'[s].entry_price, RAdd(positions[s].quantity, q))
                       = RAdd(RMul(positions[s].entry_price, positions[s].quantity),
                              RMul(x, q))
    ]_vars

\* a BUY of 2 has just been merged into a position of 1 bought at another price
C1_Witness ==
    /\ lastExec.action = "BUY"
    /\ lastExec.id = 2
    /\ lastExec.bar = 2
    /\ lastExec.symbol \in DOMAIN positions
    /\ positions[lastExec.symbol].quantity = RInt(3)
    /\ positions[lastExec.symbol].entry_price \notin {RMul(RInt(p), RAdd(ROne, Slippage)) : p \in Prices}

\* C2: CLOSE_ALL or CLOSE_LONG on an open LONG position (q, e) at execution
\* price x appends exactly one Trade with pnl = (x - e)*q - q*x*commission,
\* removes the position and increases cash by q*x - q*x*commission: the
\* commission of the closing leg is computed on the closed quantity.
C2_CloseEffect ==
    [][(/\ ExecStep
        /\ pending_signals[k].action \in {"CLOSE_ALL", "CLOSE_LONG"}
        /\ pending_signals[k].symbol \in DOMAIN positions
        /\ positions[pending_signals[k].symbol].side = "LONG") =>
        LET s == pending_signals[k].symbol
            q == positions[s].quantity
            e == positions[s].entry_price
            x == ClosePrice
            fee == RMul(RMul(q, x), Commission)
        IN  /\ Len(trades') = Len(trades) + 1
            /\ Last(trades').pnl = RSub(RMul(RSub(x, e), q), fee)
            /\ s \notin DOMAIN positions'
            /\ capital' = RAdd(capital, RSub(RMul(q, x), fee))
    ]_vars

\* C3: on a LONG position SELL, CLOSE_LONG and CLOSE_ALL, applied to the same
\* ledger at the same price with the same quantity field, give the same cash,
\* the same appended Trade and the same position map.
C3_SameClose ==
    (/\ pc = "signals"
     /\ k <= Len(pending_signals)
     /\ pending_signals[k].symbol \in DOMAIN positions
     /\ positions[pending_signals[k].symbol].side = "LONG") =>
        \A a, b \in CloseActions :
            ExecuteSignal(Ledger(capital, positions, trades),
                          [pending_signals[k] EXCEPT !.action = a],
                          bar.close, bar.timestamp)
            = ExecuteSignal(Ledger(capital, positions, trades),
                            [pending_signals[k] EXCEPT !.action = b],
                            bar.close, bar.timestamp)

\* C4: SELL, CLOSE_LONG or CLOSE_ALL for a symbol without an open position
\* changes neither cash, nor the position map, nor the trade log, and the
\* loop goes on to the next signal.
C4_NoPositionNoOp ==
    [][(/\ ExecStep
        /\ pending_signals[k].action \in CloseActions
        /\ pending_signals[k].symbol \notin DOMAIN positions) =>
        /\ capital' = capital
        /\ positions' = positions
        /\ trades' = trades
        /\ pc' = "signals"
    ]_vars

\* a SELL was the first signal of the run, and the next one is still to be applied
C4_Witness ==
    /\ lastExec.action = "SELL"
    /\ lastExec.id = 1
    /\ pc = "signals"
    /\ k = 2
    /\ Len(pending_signals) = 2
    /\ trades = <<>>
    /\ capital = RInt(InitialCapital)

C6_PositionMap ==
    /\ \A s \in DOMAIN positions :
          /\ positions[s].symbol = s
          /\ RLt(RZero, positions[s].quantity)
    /\ Cardinality({positions[s].symbol : s \in DOMAIN positions})
         = Cardinality(DOMAIN positions)
    /\ lastExec.action \in CloseActions => lastExec.symbol \notin DOMAIN positions

\* a closing signal has just closed the only position
C6_Witness ==
    /\ lastExec.action = "CLOSE_ALL"
    /\ lastExec.id = 2
    /\ Len(trades) = 1
    /\ trades[1].symbol = lastExec.symbol
    /\ positions = EmptyMap

\* C7: after the position update of a bar (so at every equity sample) each
\* open position stores unrealized_pnl = (current_price - entry_price) *
\* quantity for LONG, (entry_price - current_price) * quantity for SHORT,
\* with its entry price and quantity as BUY merges left them.
C7_UnrealizedPnl ==
    pc \in {"record", "loop", "stopped"} =>
        \A s \in DOMAIN positions :
            LET pos == positions[s]
            IN  /\ pos.current_price = bar.close
                /\ pos.unrealized_pnl =
                      IF pos.side = "LONG"
                      THEN RMul(RSub(pos.current_price, pos.entry_price), pos.quantity)
                      ELSE RMul(RSub(pos.entry_price, pos.current_price), pos.quantity)

\* the equity sample of bar 2 is about to be taken with a position merged from
\* two BUYs, one of them at bar 1, and re-priced at bar 2
C7_Witness ==
    /\ pc = "record"
    /\ barIdx = 2
    /\ lastExec.action = "BUY"
    /\ lastExec.bar = 2
    /\ \E s \in DOMAIN positions :
          /\ positions[s].quantity = RInt(3)
          /\ positions[s].unrealized_pnl # RZero

\* the value the open positions add to the equity: cost basis plus unrealized pnl
RECURSIVE HeldValue(_, _)
HeldValue(pos, keys) ==
    IF keys = {} THEN RZero
    ELSE LET s == CHOOSE t \in keys : TRUE
         IN  RAdd(RAdd(RMul(pos[s].entry_price, pos[s].quantity), pos[s].unrealized_pnl),
                  HeldValue(pos, keys \ {s}))

RECURSIVE HeldPnl(_, _)
HeldPnl(pos, keys) ==
    IF keys = {} THEN RZero
    ELSE LET s == CHOOSE t \in keys : TRUE
         IN  RAdd(pos[s].unrealized_pnl, HeldPnl(pos, keys \ {s}))

AfterBar == pc \in {"loop", "stopped"} /\ barIdx >= 1

\* C8 as stated: after each bar, (capital - initial_capital) plus the sum of
\* the unrealized pnl of the open positions equals total_pnl, the engine's
\* equity minus initial_capital.
C8_Original ==
    AfterBar =>
        /\ RAdd(RSub(capital, RInt(InitialCapital)), HeldPnl(positions, DOMAIN positions))
             = RSub(Last(equity_curve), RInt(InitialCapital))
        /\ pc = "stopped" =>
              RAdd(RSub(capital, RInt(InitialCapital)), HeldPnl(positions, DOMAIN positions))
               = result.total_pnl

\* C8 amended: after each bar, (capital - initial_capital) plus the sum over
\* the open positions of entry_price * quantity + unrealized_pnl equals
\* total_pnl, the engine's equity minus initial_capital.
C8_Conservation ==
    AfterBar =>
        /\ RAdd(RSub(capital, RInt(InitialCapital)), HeldValue(positions, DOMAIN positions))
             = RSub(Last(equity_curve), RInt(InitialCapital))
        /\ pc = "stopped" =>
              RAdd(RSub(capital, RInt(InitialCapital)), HeldValue(positions, DOMAIN positions))
               = result.total_pnl

\* run() has returned with a position still open, bought at bar 1 and re-priced
\* at another close at bar 2
C8_Witness ==
    /\ pc = "stopped"
    /\ barIdx = 2
    /\ lastExec.action = "BUY"
    /\ lastExec.bar = 1
    /\ \E s \in DOMAIN positions : positions[s].unrealized_pnl[1] > 100
    /\ result.total_pnl # RSub(capital, RInt(InitialCapital))

\* C9: the trade log only grows by appending, one Trade exactly when a signal
\* removes a position from the map (never on BUY or on a no-op); logged Trades
\* are never changed, removed or reordered; the appended Trade is the one of
\* the position just closed, so the log is in close order.
C9_TradeLog ==
    [][/\ \/ trades' = trades
          \/ /\ Len(trades') = Len(trades) + 1
             /\ SubSeq(trades', 1, Len(trades)) = trades
       /\ (trades' # trades) <=> (DOMAIN positions' # DOMAIN positions
                                   /\ DOMAIN positions' \subseteq DOMAIN positions)
       /\ (trades' # trades) =>
             /\ ExecStep
             /\ pending_signals[k].action \in CloseActions
             /\ DOMAIN positions \ DOMAIN positions' = {Last(trades').symbol}
             /\ Last(trades').quantity = positions[Last(trades').symbol].quantity
             /\ Last(trades').exit_time = bar.timestamp
             /\ \A i \in 1..Len(trades) : trades[i].exit_time <= Last(trades').exit_time
    ]_vars

\* a SELL at bar 2 has logged the Trade of a position opened at bar 1
C9_Witness ==
    /\ lastExec.action = "SELL"
    /\ lastExec.bar = 2
    /\ Len(trades) = 1
    /\ trades[1].exit_time = 2
    /\ trades[1].symbol = lastExec.symbol
    /\ trades[1].entry_price # trades[1].exit_price

\* C10: bars are processed in input order; the signals pending at a bar are
\* applied in emission order at that bar's close, before the bar's equity
\* sample is recorded; the queue is empty after each bar, so no signal is
\* applied at a later bar than the one at which it was pending.
C10_Ordering ==
    [][/\ bar' # bar => (pc = "loop" /\ bar'.timestamp = bar.timestamp + 1)
       /\ ExecStep =>
             /\ lastExec'.id > lastExec.id
             /\ lastExec'.id = pending_signals[k].id
             /\ \A j \in 1..Len(pending_signals) :
                   (j < k) = (pending_signals[j].id < lastExec'.id)
             /\ lastExec'.emitted_at = bar.timestamp
             /\ lastExec'.bar = bar.timestamp
             /\ lastExec'.price = bar.close
             /\ Len(equity_curve) = bar.timestamp
             /\ equity_curve' = equity_curve
       /\ equity_curve' # equity_curve =>
             /\ pending_signals = <<>>
             /\ Len(equity_curve') = bar.timestamp + 1
       /\ pc' \in {"update", "record", "loop", "stopped"} => pending_signals' = <<>>
    ]_vars

\* two signals emitted at bar 2 have been applied there, in order, and the
\* bar's equity sample is still to be recorded
C10_Witness ==
    /\ pc = "record"
    /\ barIdx = 2
    /\ lastExec.id = 2
    /\ lastExec.bar = 2
    /\ k = 3
    /\ Len(equity_curve) = 2

\* C11: every signal emitted during a run, from the start hook to the stop
\* hook, is consumed exactly once: when run() returns, no signal emitted
\* during that run is left in the pending queue.
C11_ConsumedOnce ==
    [][(pc = "loop" /\ pc' = "stopped" /\ result = NoResult) =>
        pending_signals' = <<>>]_vars

\* C12: the equity curve starts with initial_capital; a run over n bars appends
\* exactly one sample per bar, so its length is n + 1 after the run; each
\* appended sample is cash + the sum over the open positions of entry_price *
\* quantity + unrealized_pnl, taken after the bar's signals were applied and
\* its positions re-priced at the bar's close.
C12_EquityCurve ==
    [][/\ equity_curve[1] = RInt(InitialCapital)
       /\ equity_curve'[1] = RInt(InitialCapital)
       /\ pc' \in {"loop", "stopped"} => Len(equity_curve') = barIdx' + 1
       /\ equity_curve' # equity_curve =>
             /\ pending_signals = <<>>
             /\ \A s \in DOMAIN positions :
                   /\ positions[s].current_price = bar.close
                   /\ positions[s].unrealized_pnl =
                         RMul(RSub(bar.close, positions[s].entry_price),
                              positions[s].quantity)
             /\ equity_curve' =
                   Append(equity_curve,
                          RAdd(capital, HeldValue(positions, DOMAIN positions)))
             /\ Len(equity_curve') = barIdx + 1]_vars

\* run() has returned after two bars: the curve has three samples, the last
\* one taken with a position open, and the three differ
C12_Witness ==
    /\ pc = "stopped"
    /\ barIdx = 2
    /\ Len(equity_curve) = 3
    /\ DOMAIN positions # {}
    /\ equity_curve[2] # equity_curve[1]
    /\ equity_curve[3] # equity_curve[2]
    /\ equity_curve[3] # equity_curve[1]

\* C13: once a run has reached STOPPED, nothing that can still be done with the
\* engine or its strategy changes the cash, the position map, the trade log,
\* the pending queue, the equity curve or the returned BacktestResult.
C13_StoppedFrozen ==
    [][result # NoResult =>
        UNCHANGED <<capital, positions, trades, pending_signals, equity_curve,
                    result>>]_vars

C15_SkippedLocally ==
    [][(/\ pc = "signals"
        /\ k <= Len(pending_signals)
        /\ Raises(positions, pending_signals[k])) =>
            /\ pc' = "signals"
            /\ k' = k + 1
            /\ UNCHANGED <<capital, positions, trades, pending_signals>>]_vars

\* the indices of the logged trades with a pnl above, or below, zero
Winning == {i \in 1..Len(trades) : trades[i].pnl[1] > 0}

Losing == {i \in 1..Len(trades) : trades[i].pnl[1] < 0}

RECURSIVE PnlOf(_)
PnlOf(idx) ==
    IF idx = {} THEN RZero
    ELSE LET i == CHOOSE j \in idx : TRUE
         IN  RAdd(trades[i].pnl, PnlOf(idx \ {i}))

\* C16: for every trade log the statistics are defined: winning_trades counts
\* the trades with pnl > 0 and losing_trades those with pnl < 0 (their sum is
\* at most total_trades); win_rate = winning_trades / total_trades * 100, 0 for
\* an empty log; avg_win >= 0 and avg_loss <= 0; profit_factor = sum of the
\* winning pnl / |sum of the losing pnl| with losing trades, 0 without; an
\* empty log gives zero for all of them.
C16_TradeStatistics ==
    pc = "stopped" =>
        /\ result.total_trades = Len(trades)
        /\ result.winning_trades = Cardinality(Winning)
        /\ result.losing_trades = Cardinality(Losing)
        /\ result.winning_trades + result.losing_trades <= result.total_trades
        /\ Len(trades) > 0 =>
              RMul(result.win_rate, RInt(Len(trades))) = RInt(100 * Cardinality(Winning))
        /\ result.avg_win[1] >= 0
        /\ result.avg_loss[1] <= 0
        /\ Winning # {} =>
              RMul(result.avg_win, RInt(Cardinality(Winning))) = PnlOf(Winning)
        /\ Losing # {} =>
              /\ RMul(result.avg_loss, RInt(Cardinality(Losing))) = PnlOf(Losing)
              /\ RMul(result.profit_factor, RNeg(PnlOf(Losing))) = PnlOf(Winning)
        /\ Losing = {} => result.profit_factor = RZero
        /\ Len(trades) = 0 =>
              /\ result.total_trades = 0
              /\ result.win_rate = RZero
              /\ result.profit_factor = RZero
              /\ result.avg_win = RZero
              /\ result.avg_loss = RZero

\* the results of a log of a zero-pnl trade and a losing one: one loss, no
\* win, a profit factor of zero over a loss
C16_Witness ==
    /\ pc = "stopped"
    /\ Len(trades) = 2
    /\ trades[1].pnl = RZero
    /\ trades[2].pnl[1] < 0
    /\ result.winning_trades = 0
    /\ result.losing_trades = 1
    /\ result.win_rate = RZero

\* the highest of the first i samples of the curve
PeakAt(i) ==
    CHOOSE m \in {equity_curve[j] : j \in 1..i} :
        \A j \in 1..i : ~RLt(m, equity_curve[j])

DrawdownAt(i) == RSub(PeakAt(i), equity_curve[i])

\* C17: max_drawdown is the maximum over the samples i of (the highest sample
\* up to i) - (sample i), and max_drawdown_pct is drawdown / peak * 100 at the
\* first sample where that maximum is attained: a later sample of equal
\* drawdown does not replace it.
C17_MaxDrawdown ==
    pc = "stopped" =>
        LET n == Len(equity_curve)
            first == CHOOSE i \in 1..n :
                        /\ \A j \in 1..n : ~RLt(DrawdownAt(i), DrawdownAt(j))
                        /\ \A j \in 1..(i - 1) : RLt(DrawdownAt(j), DrawdownAt(i))
        IN  /\ result.max_drawdown = DrawdownAt(first)
            /\ \A j \in 1..n : ~RLt(result.max_drawdown, DrawdownAt(j))
            /\ result.max_drawdown_pct = Pct(RDiv(DrawdownAt(first), PeakAt(first)))

\* Scenario D: the curve 10000, 11000, 9000, 9500 gives 2000 and 2/11 * 100,
\* about 18.18 percent
C17_Witness ==
    /\ pc = "stopped"
    /\ equity_curve = <<RInt(10000), RInt(11000), RInt(9000), RInt(9500)>>
    /\ result.max_drawdown = RInt(2000)
    /\ result.max_drawdown_pct = Pct(<<2, 11>>)

\* the last call of the dispatcher was dispatch, of a decision whose backend_id
\* is not registered
UnknownRequested ==
    /\ dispatched.op = "dispatch"
    /\ dispatched.decision.backend_id \notin DOMAIN backends

\* the actions each backend's supports accepts, as the backends document them
SupportedActions(id) ==
    IF id \in {"direct_order", "quant_nautilus"}
    THEN {"buy", "sell", "hold"}
    ELSE {"buy", "sell", "hold", "delegate"}

DoesNotSupport(r) ==
    /\ r.success = FALSE
    /\ r.message[Len(r.message)] = " does not support this decision type"

\* C18 as stated: a decision with an unregistered backend_id, a default being
\* configured, is executed by the default backend (supports, then execute),
\* and the result's backend_id is the default's id.
C18_Original ==
    (UnknownRequested /\ default_backend_id # NoBackendId) =>
        /\ dispatched.calls = <<Call(default_backend_id, "supports"),
                                Call(default_backend_id, "execute")>>
        /\ dispatched.result.backend_id = default_backend_id

\* C18 amended: such a decision is put to the default backend's supports; if
\* the default supports it, the default executes it and the result's
\* backend_id is the default's id, not the requested one; if not, execute is
\* not called and the failed result carries the requested id.
C18_Fallback ==
    (UnknownRequested /\ default_backend_id # NoBackendId) =>
        IF dispatched.decision.action \in SupportedActions(default_backend_id)
        THEN /\ dispatched.calls = <<Call(default_backend_id, "supports"),
                                     Call(default_backend_id, "execute")>>
             /\ dispatched.result.backend_id = default_backend_id
             /\ dispatched.result.backend_id # dispatched.decision.backend_id
        ELSE /\ dispatched.calls = <<Call(default_backend_id, "supports")>>
             /\ DoesNotSupport(dispatched.result)
             /\ dispatched.result.backend_id = dispatched.decision.backend_id

\* Scenario C: only direct_order registered, and default; a buy for
\* "nonexistent" succeeds through direct_order
C18_Witness ==
    /\ UnknownRequested
    /\ DOMAIN backends = {"direct_order"}
    /\ default_backend_id = "direct_order"
    /\ dispatched.decision.backend_id = "nonexistent"
    /\ dispatched.decision.action = "buy"
    /\ dispatched.result.success
    /\ dispatched.result.backend_id = "direct_order"
    /\ Len(dispatched.result.trades) = 1

\* C19: a decision with an unregistered backend_id, no default being
\* configured, gets a failed result with an "unknown backend" message; no
\* backend's supports or execute is called and no exception escapes.
C19_UnknownNoDefault ==
    (UnknownRequested /\ default_backend_id = NoBackendId) =>
        /\ dispatched.result.success = FALSE
        /\ dispatched.result.message =
              <<"Unknown backend: ", dispatched.decision.backend_id>>
        /\ dispatched.result.trades = <<>>
        /\ dispatched.calls = <<>>
        /\ dispatched.raised = FALSE

\* two backends are registered, none is the default, and a decision for a
\* third one was dispatched
C19_Witness ==
    /\ UnknownRequested
    /\ default_backend_id = NoBackendId
    /\ DOMAIN backends = {"direct_order", "quant_nautilus"}
    /\ dispatched.decision.backend_id = "grid_strategy"
    /\ dispatched.decision.action = "buy"
    /\ dispatched.result.success = FALSE

\* the backend dispatch selects for the last decision: the requested one, or
\* the default
Selected ==
    IF dispatched.decision.backend_id \in DOMAIN backends
    THEN dispatched.decision.backend_id
    ELSE default_backend_id

\* C20: dispatch calls execute only on a backend whose supports accepted the
\* decision; when the selected backend (requested or fallback) does not
\* support it, the result is a failure with a "does not support this decision
\* type" message, execute is called on no backend and no exception escapes.
C20_SupportsGate ==
    dispatched.op = "dispatch" =>
        /\ \A i \in 1..Len(dispatched.calls) :
              dispatched.calls[i].method = "execute" =>
                  /\ i = 2
                  /\ dispatched.calls[1] = Call(dispatched.calls[i].backend, "supports")
                  /\ dispatched.decision.action
                        \in SupportedActions(dispatched.calls[i].backend)
        /\ (/\ Selected # NoBackendId
            /\ dispatched.decision.action \notin SupportedActions(Selected)) =>
                /\ DoesNotSupport(dispatched.result)
                /\ dispatched.result.trades = <<>>
                /\ dispatched.calls = <<Call(Selected, "supports")>>
                /\ dispatched.raised = FALSE

\* direct_order was asked to delegate while prompt_strategy, which would have
\* taken the decision, is the default: the decision failed without reaching it
C20_Witness ==
    /\ dispatched.op = "dispatch"
    /\ dispatched.decision.backend_id = "direct_order"
    /\ dispatched.decision.action = "delegate"
    /\ "direct_order" \in DOMAIN backends
    /\ default_backend_id = "prompt_strategy"
    /\ dispatched.calls = <<Call("direct_order", "supports")>>
    /\ dispatched.result.success = FALSE

\* C21: dispatch never lets an exception reach its caller, whatever the
\* registry, the decision and the backend do: it returns an ExecutionResult;
\* when the backend's execute raised, the result is a failure that carries the
\* exception's message in message and in metadata.
C21_NoException ==
    dispatched.op = "dispatch" =>
        /\ dispatched.raised = FALSE
        /\ dispatched.phase # "raised"
        /\ (/\ dispatched.phase = "returned"
            /\ dispatched.backend = "execute_raises") =>
                /\ dispatched.result.success = FALSE
                /\ dispatched.result.message[2] = BackendError
                /\ dispatched.result.metadata.error = BackendError

\* C22: every call of dispatch returns: while it waits for backend.execute,
\* the step that ends the wait can be taken, so that a backend whose execute
\* never completes cannot stall the caller.
C22_Returns ==
    (dispatched.op = "dispatch" /\ dispatched.phase = "awaiting") =>
        ENABLED DispatchReturn

\* C23: configuration errors never cross a public boundary as exceptions:
\* set_default_backend with an id that is not registered, dispatch of a decision
\* with an id that is not registered, and a quant decision naming an unknown
\* strategy each end without an exception, the last two with a failed result
\* that carries a message; the default is whatever it was before the call.
C23_NoConfigException ==
    /\ (/\ dispatched.op = "set_default_backend"
        /\ dispatched.backend_id \notin DOMAIN backends) =>
            dispatched.raised = FALSE
    /\ (/\ UnknownRequested
        /\ default_backend_id \notin DOMAIN backends) =>
            /\ dispatched.raised = FALSE
            /\ dispatched.result.success = FALSE
            /\ Len(dispatched.result.message) > 0
    /\ (/\ dispatched.op = "dispatch"
        /\ dispatched.result.backend_id = "quant_nautilus"
        /\ dispatched.calls = <<Call("quant_nautilus", "supports"),
                               Call("quant_nautilus", "execute")>>
        /\ ParamGet(dispatched.decision, "strategy_id", "ema_cross")
              \notin SUPPORTED_STRATEGIES) =>
            /\ dispatched.raised = FALSE
            /\ dispatched.result.success = FALSE
            /\ dispatched.result.message = <<"Unknown strategy: ", "bogus">>

\* the backend whose execute produced the last result: the object it was called
\* on, or the backend dispatch called execute on; NoBackendId when none did
ExecutedBy ==
    IF dispatched.op = "execute" THEN dispatched.backend
    ELSE IF dispatched.op = "dispatch" /\ Len(dispatched.calls) = 2
    THEN dispatched.calls[2].backend
    ELSE NoBackendId

\* C24: a hold decision never produces a trade, whichever backend it is given
\* to and whether directly or through dispatch, and the direct-order backend
\* reports success for it; a buy or sell executed by the direct-order backend
\* succeeds with exactly one trade, whose side is the upper-cased action and
\* whose status is SIMULATED.
C24_HoldNoTrade ==
    dispatched.op \in {"execute", "dispatch"} =>
        /\ dispatched.decision.action = "hold" =>
              /\ dispatched.result.trades = <<>>
              /\ ExecutedBy = "direct_order" => dispatched.result.success = TRUE
        /\ (/\ ExecutedBy = "direct_order"
            /\ dispatched.decision.action \in {"buy", "sell"}) =>
              /\ dispatched.result.success = TRUE
              /\ Len(dispatched.result.trades) = 1
              /\ dispatched.result.trades[1].side =
                    (IF dispatched.decision.action = "buy" THEN "BUY" ELSE "SELL")
              /\ dispatched.result.trades[1].status = "SIMULATED"

\* a hold executed by the direct-order backend through dispatch
C24_Witness ==
    /\ dispatched.op = "dispatch"
    /\ dispatched.decision.action = "hold"
    /\ ExecutedBy = "direct_order"
    /\ dispatched.result.success = TRUE
    /\ dispatched.result.trades = <<>>

\* the number of orders of a side in a list of grid orders
RECURSIVE CountSide(_, _)
CountSide(orders, side) ==
    IF orders = <<>> THEN 0
    ELSE (IF orders[1].side = side THEN 1 ELSE 0) + CountSide(Tail(orders), side)

\* the grid backend was called directly with a decision that is not a hold and
\* carries a grid_size
GridExecuted ==
    /\ dispatched.op = "execute"
    /\ dispatched.backend = "grid_strategy"
    /\ dispatched.decision.action # "hold"
    /\ "grid_size" \in DOMAIN dispatched.decision.params

\* C25 as stated: for every non-hold decision with a grid_size >= 0 the grid
\* backend builds exactly grid_size pending orders of which as many are BUY as
\* are SELL, returns no trades and reports pending_orders = grid_size.
C25_Original ==
    GridExecuted =>
        LET n == dispatched.decision.params.grid_size
        IN  /\ Len(dispatched.grid_orders) = n
            /\ CountSide(dispatched.grid_orders, "BUY")
                  = CountSide(dispatched.grid_orders, "SELL")
            /\ dispatched.result.trades = <<>>
            /\ dispatched.result.metadata.pending_orders = n

\* C25 (amended): the grid backend builds exactly grid_size pending orders, the
\* lowest grid_size \div 2 levels BUY and the remaining ones SELL, so the two
\* counts are equal when grid_size is even and SELL has one more when it is
\* odd; it returns no trades and reports pending_orders = grid_size.
C25_GridSplit ==
    GridExecuted =>
        LET n == dispatched.decision.params.grid_size
            orders == dispatched.grid_orders
        IN  /\ Len(orders) = n
            /\ \A i \in 1..Len(orders) : orders[i].status = "PENDING"
            /\ CountSide(orders, "BUY") = n \div 2
            /\ CountSide(orders, "SELL") = n - (n \div 2)
            /\ \A i, j \in 1..Len(orders) :
                  (orders[i].side = "BUY" /\ orders[j].side = "SELL") => i < j
            /\ dispatched.result.success = TRUE
            /\ dispatched.result.trades = <<>>
            /\ dispatched.result.metadata.pending_orders = n

\* a grid of three levels: one BUY and two SELL
C25_Witness ==
    /\ GridExecuted
    /\ dispatched.decision.params.grid_size = 3
    /\ CountSide(dispatched.grid_orders, "BUY") = 1
    /\ CountSide(dispatched.grid_orders, "SELL") = 2
    /\ dispatched.result.metadata.pending_orders = 3

\* the response the LLM of the last make_decision gave does not yield a
\* decision: it is no JSON, no JSON object, or an object with a refused field
Unusable(llm) ==
    /\ llm.kind = "responds"
    /\ LET doc == ExtractJson(llm.response)
       IN  \/ doc.kind \in {"invalid", "array"}
           \/ /\ doc.kind = "object"
              /\ \E key \in DOMAIN doc.data : doc.data[key] = JNull

RECURSIVE SumEntryCost(_)
SumEntryCost(trs) ==
    IF trs = <<>> THEN RZero
    ELSE RAdd(RMul(Head(trs).entry_price, Head(trs).quantity),
              SumEntryCost(Tail(trs)))

\* C27: round-trip cash conservation: whenever no position is open,
\* capital - initial_capital is the sum of the pnl of the trade log minus the
\* sum of the commissions charged on the BUY legs.
C27_CashConserved ==
    DOMAIN positions = {} =>
        RSub(capital, RInt(InitialCapital))
            = RSub(SumPnl(trades), RMul(Commission, SumEntryCost(trades)))

\* C28: every position the engine holds has side LONG, whatever BUY, SELL,
\* CLOSE_LONG, CLOSE_SHORT and CLOSE_ALL signals it executes, and a SELL for a
\* symbol without an open position leaves the position map as it is.
C28_LongOnly ==
    [][/\ \A s \in DOMAIN positions' : positions'[s].side = "LONG"
       /\ (/\ ExecStep
           /\ pending_signals[k].action = "SELL"
           /\ pending_signals[k].symbol \notin DOMAIN positions) =>
             positions' = positions
    ]_vars

\* a SELL for a symbol without a position, executed after a BUY of the other
\* symbol: the only position is the LONG one the BUY opened
C28_Witness ==
    /\ lastExec.action = "SELL"
    /\ lastExec.id = 2
    /\ DOMAIN positions # {}
    /\ lastExec.symbol \notin DOMAIN positions
    /\ trades = <<>>
    /\ \A s \in DOMAIN positions : positions[s].side = "LONG"

\* C29: prices never cross symbols: the price update of a bar changes only the
\* position of the bar's own symbol, and a signal changes the ledger only when
\* it is executed on a bar of the signal's symbol.
C29_OwnSymbolPrices ==
    [][/\ (pc = "update" /\ pc' = "record") =>
             \A s \in DOMAIN positions :
                 s # bar.symbol => positions'[s] = positions[s]
       /\ (/\ ExecStep
           /\ <<capital, positions, trades>>' # <<capital, positions, trades>>) =>
             pending_signals[k].symbol = bar.symbol
    ]_vars

\* C30: every call of run() that started the strategy stops it: when run() has
\* ended, by its return or by an exception raised inside the bar loop, the
\* stop hook has been called and the strategy's is_running is false.
C30_RunCompletes ==
    pc \in {"stopped", "raised"} => is_running = FALSE

====
